---- MODULE Spec2Model ----
(***************************************************************************)
(* IS.MUNI-sync: main.py.  One run of main(): the configuration is read,   *)
(* the PluginManager is built, and every configured channel is             *)
(* synchronised by synchronize_directory, record by record.                *)
(*                                                                         *)
(* Strings that the code inspects character by character (file names,     *)
(* channel keys, the comma separated channel lists of [Plugins]) are       *)
(* sequences of one-character strings.  Timestamps are naturals.           *)
(***************************************************************************)
EXTENDS Integers, Sequences, FiniteSets, TLC

(* ------------------------------ bounds -------------------------------- *)

\* the most records the remote serves in one run, over all channels
MaxRecords == 2
\* timestamps (remote "vlozeno" values and local modification times) are 0..MaxTime
MaxTime == 1

Times == 0..MaxTime

(* ------------------------------ values -------------------------------- *)

\* Python's None where the code expects a string: the value that makes
\* objekt.find(tag).text raise (element missing, or present without text)
NoneVal == "None"
\* the same for a file name, which is a sequence of characters
NoName == <<>>
\* text of a <vlozeno> element that does not match "%Y-%m-%dT%H:%M:%S"
BadStamp == "not-a-date"
\* the state of a path for which os.path.exists is False
NoFile == [bytes |-> "none", mtime |-> 0]

NotePdf == <<"n", ".", "p", "d", "f">>
ReadmeTxt == <<"r", ".", "t", "x", "t">>
FileNames == {NotePdf, ReadmeTxt}

\* keys of the [Channels] section, in configuration order, with their url
ChannelX == <<"/", "x">>
ChannelY == <<"y">>

\* names of the [Plugins] section
PluginNames == {"P1", "P2"}

(* --------------------------- string helpers --------------------------- *)

\* str.lstrip('/') of main.py:235
RECURSIVE LStripSlash(_)
LStripSlash(s) ==
    IF s # <<>> /\ Head(s) = "/" THEN LStripSlash(Tail(s)) ELSE s

\* the part of s before its first comma (all of s when it has none)
RECURSIVE UpToComma(_)
UpToComma(s) ==
    IF s = <<>> \/ Head(s) = "," THEN <<>> ELSE <<Head(s)>> \o UpToComma(Tail(s))

\* str.split(',') of main.py:24: no stripping, empty fields kept
RECURSIVE SplitComma(_)
SplitComma(s) ==
    LET first == UpToComma(s)
    IN  IF Len(first) = Len(s) THEN <<first>>
        ELSE <<first>> \o SplitComma(SubSeq(s, Len(first) + 2, Len(s)))

\* file_path[-4:] of main.py:61 (the whole string when it is shorter)
LastFour(s) ==
    IF Len(s) <= 4 THEN s ELSE SubSeq(s, Len(s) - 3, Len(s))

\* os.path.join(root_dir, channel.lstrip('/')) of main.py:235, root_dir left out
LocalDir(channel) == LStripSlash(channel)

\* The text of a timestamp.  A remote timestamp reaches the code as text and
\* is parsed by datetime.strptime (main.py:158-160).
Digits == <<"0", "1", "2", "3", "4", "5", "6", "7", "8", "9">>
StampText(t) == Digits[t + 1]
Parsable(text) == \E i \in 1..Len(Digits) : Digits[i] = text
StrpTime(text) == (CHOOSE i \in 1..Len(Digits) : Digits[i] = text) - 1

(* ------------------------------ file store ---------------------------- *)

\* Contents a local file can have.  "plain", "annotated" and "corrupt" are
\* what the user may have before the run, "remote" is response.content as
\* written by download_file, "processed" is a file rewritten in place by a
\* plugin hook, "truncated" is what open(local_path, "wb") leaves when the
\* write after it fails.
Contents == {"plain", "annotated", "corrupt", "remote", "processed", "truncated"}

\* The pages of a document as hasAnnotations sees them: one flag per page,
\* TRUE when page.annots() yields at least one annotation.
PagesOf(bytes) ==
    CASE bytes = "annotated" -> <<FALSE, TRUE, FALSE>>
      [] bytes = "plain"     -> <<FALSE, FALSE>>
      [] bytes = "remote"    -> <<FALSE>>
      [] bytes = "processed" -> <<FALSE>>
      [] OTHER               -> <<>>

\* fitz.open raises on a file that is no readable document
OpenRaises(bytes) == bytes \in {"corrupt", "truncated"}

\* what a user can have under a name before the run: no file, an old or a
\* recent plain file and, under a pdf name, an old or a recent annotated
\* document or an old damaged one
UserFiles(name) ==
    <<NoFile, [bytes |-> "plain", mtime |-> 0], [bytes |-> "plain", mtime |-> MaxTime]>>
    \o IF LastFour(name) = <<".", "p", "d", "f">>
       THEN <<[bytes |-> "annotated", mtime |-> 0],
              [bytes |-> "annotated", mtime |-> MaxTime],
              [bytes |-> "corrupt", mtime |-> 0]>>
       ELSE <<>>

(* --------------------------- remote records --------------------------- *)

\* one <objekt> of the listing: the text of its jmeno_souboru, cesta and
\* vlozeno children, NoneVal for a missing child
StampTexts == {StampText(t) : t \in Times}

WellFormed == [jmeno_souboru : FileNames, cesta : {"/el/dir/f"}, vlozeno : StampTexts]

\* records with one defect each: no file name, no path, no or a bad timestamp
Malformed ==
         [jmeno_souboru : {NoName}, cesta : {"/el/dir/f"}, vlozeno : {StampText(0)}]
    \cup [jmeno_souboru : {ReadmeTxt}, cesta : {NoneVal}, vlozeno : {StampText(0)}]
    \cup [jmeno_souboru : {ReadmeTxt}, cesta : {"/el/dir/f"}, vlozeno : {NoneVal, BadStamp}]

Records == WellFormed \cup Malformed

Listings == UNION {[1..n -> Records] : n \in 0..MaxRecords}

(* --------------------------- hasAnnotations --------------------------- *)

\* the page loop with every page loaded before the answer is given
ScanPagesAll(pages, i) ==
    [found |-> \E j \in i..Len(pages) : pages[j], loaded |-> Len(pages)]

\* the loop of main.py:73-76 from page i on: the result and the number of
\* pages loaded by load_page
RECURSIVE ScanPages(_, _)
ScanPages(pages, i) ==
    IF i > Len(pages) THEN [found |-> FALSE, loaded |-> Len(pages)]
    ELSE IF pages[i] THEN [found |-> TRUE, loaded |-> i]
    ELSE ScanPages(pages, i + 1)

\* hasAnnotations that answers False for a document it cannot open
hasAnnotationsLenient(name, file) ==
    IF LastFour(name) # <<".", "p", "d", "f">>
    THEN [result |-> "False", opened |-> FALSE, closed |-> FALSE, loaded |-> 0]
    ELSE IF OpenRaises(file.bytes)
    THEN [result |-> "False", opened |-> FALSE, closed |-> FALSE, loaded |-> 0]
    ELSE LET scan == ScanPages(PagesOf(file.bytes), 1)
         IN  IF scan.found
             THEN [result |-> "True", opened |-> TRUE, closed |-> FALSE,
                   loaded |-> scan.loaded]
             ELSE [result |-> "False", opened |-> TRUE, closed |-> TRUE,
                   loaded |-> scan.loaded]

\* hasAnnotations(file_path) on the file stored under that path.
\* result: "True", "False" or "raise"; opened/closed: whether fitz.open and
\* pdf_document.close() were executed; loaded: pages loaded.
hasAnnotations(name, file) ==
    IF LastFour(name) # <<".", "p", "d", "f">>
    THEN [result |-> "False", opened |-> FALSE, closed |-> FALSE, loaded |-> 0]
    ELSE IF OpenRaises(file.bytes)
    THEN [result |-> "raise", opened |-> FALSE, closed |-> FALSE, loaded |-> 0]
    ELSE LET scan == ScanPages(PagesOf(file.bytes), 1)
         IN  IF scan.found
             THEN [result |-> "True", opened |-> TRUE, closed |-> FALSE,
                   loaded |-> scan.loaded]
             ELSE [result |-> "False", opened |-> TRUE, closed |-> TRUE,
                   loaded |-> scan.loaded]

(* ----------------------------- PluginManager -------------------------- *)

\* what plugins/<name>.py is: a module defining class <name> with
\* on_file_downloaded ("ok"), no such file ("no_file"), a file whose execution
\* raises ("malformed"), a module without the class ("no_class"), a class
\* without on_file_downloaded ("no_hook")
PluginKinds == {"ok", "no_file", "malformed", "no_class", "no_hook"}

\* PluginManager.load_plugin(name): "None", "raise", or an instance
load_plugin(name, kind) ==
    CASE kind = "no_file"   -> [result |-> "None", name |-> name, hook |-> FALSE]
      [] kind = "malformed" -> [result |-> "raise", name |-> name, hook |-> FALSE]
      [] kind = "no_class"  -> [result |-> "None", name |-> name, hook |-> FALSE]
      [] kind = "no_hook"   -> [result |-> "instance", name |-> name, hook |-> FALSE]
      [] OTHER              -> [result |-> "instance", name |-> name, hook |-> TRUE]

\* the (plugin_name, channel) pairs in the order the two loops of
\* load_plugins visit them
RECURSIVE Bindings(_)
Bindings(section) ==
    IF section = <<>> THEN <<>>
    ELSE LET item == Head(section)
             chans == SplitComma(item.channels)
         IN  [i \in 1..Len(chans) |-> [name |-> item.name, channel |-> chans[i]]]
             \o Bindings(Tail(section))

\* the body of the inner loop of load_plugins, main.py:25-29, pair by pair
RECURSIVE LoadFrom(_, _, _)
LoadFrom(pairs, dir, acc) ==
    IF pairs = <<>> THEN [raised |-> FALSE, plugins |-> acc]
    ELSE LET b == Head(pairs)
             withKey == IF b.channel \in DOMAIN acc THEN acc
                        ELSE acc @@ (b.channel :> <<>>)
             inst == load_plugin(b.name, dir[b.name])
         IN  IF inst.result = "raise" THEN [raised |-> TRUE, plugins |-> withKey]
             ELSE IF inst.result = "instance"
             THEN LoadFrom(Tail(pairs), dir,
                           [withKey EXCEPT ![b.channel] =
                                Append(@, [name |-> inst.name, hook |-> inst.hook])])
             ELSE LoadFrom(Tail(pairs), dir, withKey)

\* PluginManager.load_plugins
load_plugins(section, dir) == LoadFrom(Bindings(section), dir, <<>>)

\* what one call of on_file_downloaded may do: return, rewrite the file in
\* place and return, or raise
HookBehaviours == {"ok", "rewrite", "raise"}

\* run_plugins that enters the hook of every plugin a second time when the
\* first call returned
RECURSIVE RunFromTwice(_, _, _, _, _, _)
RunFromTwice(ps, i, hooks, file, now, invoked) ==
    IF i > Len(ps) THEN [raised |-> FALSE, file |-> file, invoked |-> invoked]
    ELSE IF ~ps[i].hook
    THEN [raised |-> TRUE, file |-> file, invoked |-> invoked]
    ELSE IF hooks[i] = "raise"
    THEN [raised |-> TRUE, file |-> file, invoked |-> Append(invoked, ps[i].name)]
    ELSE RunFromTwice(ps, i + 1, hooks,
                      IF hooks[i] = "rewrite"
                      THEN [bytes |-> "processed", mtime |-> now] ELSE file,
                      now, Append(Append(invoked, ps[i].name), ps[i].name))

\* run_plugins that goes on with the later plugins after a hook has raised
RECURSIVE RunFromPastRaise(_, _, _, _, _, _)
RunFromPastRaise(ps, i, hooks, file, now, invoked) ==
    IF i > Len(ps) THEN [raised |-> FALSE, file |-> file, invoked |-> invoked]
    ELSE LET rest == RunFromPastRaise(ps, i + 1, hooks,
                         IF hooks[i] = "rewrite"
                         THEN [bytes |-> "processed", mtime |-> now] ELSE file,
                         now, Append(invoked, ps[i].name))
         IN  [rest EXCEPT !.raised = @ \/ hooks[i] = "raise"]

\* PluginManager.run_plugins from plugin i of ps on; hooks[i] is what plugin i
\* does when called, now the clock for a rewrite.  invoked: the plugins whose
\* hook was entered, in order.
RECURSIVE RunFrom(_, _, _, _, _, _)
RunFrom(ps, i, hooks, file, now, invoked) ==
    IF i > Len(ps) THEN [raised |-> FALSE, file |-> file, invoked |-> invoked]
    ELSE IF ~ps[i].hook
    THEN [raised |-> TRUE, file |-> file, invoked |-> invoked]
    ELSE IF hooks[i] = "raise"
    THEN [raised |-> TRUE, file |-> file, invoked |-> Append(invoked, ps[i].name)]
    ELSE RunFrom(ps, i + 1, hooks,
                 IF hooks[i] = "rewrite"
                 THEN [bytes |-> "processed", mtime |-> now] ELSE file,
                 now, Append(invoked, ps[i].name))

run_plugins(plugins, channel_name, hooks, file, now) ==
    IF channel_name \in DOMAIN plugins
    THEN RunFrom(plugins[channel_name], 1, hooks, file, now, <<>>)
    ELSE [raised |-> FALSE, file |-> file, invoked |-> <<>>]

(* ----------------------------- download_file -------------------------- *)

\* how one call of download_file ends: the request fails or raise_for_status
\* raises ("http_error"), os.makedirs or open raises ("os_error"), the write
\* into the opened file raises ("write_error"), or the file is written ("ok")
DownloadOutcomes == {"ok", "http_error", "os_error", "write_error"}

\* download_file that removes the target when the request fails
download_fileRemoves(file, how, now) ==
    CASE how = "http_error"  -> [raised |-> TRUE, file |-> NoFile, makedirs |-> FALSE]
      [] how = "os_error"    -> [raised |-> TRUE, file |-> file, makedirs |-> TRUE]
      [] how = "write_error" -> [raised |-> TRUE, makedirs |-> TRUE,
                                 file |-> [bytes |-> "truncated", mtime |-> now]]
      [] OTHER               -> [raised |-> FALSE, makedirs |-> TRUE,
                                 file |-> [bytes |-> "remote", mtime |-> now]]

\* download_file that gives the written file the modification time 0
\* whatever the clock shows
download_fileUnstamped(file, how, now) ==
    CASE how = "http_error"  -> [raised |-> TRUE, file |-> file, makedirs |-> FALSE]
      [] how = "os_error"    -> [raised |-> TRUE, file |-> file, makedirs |-> TRUE]
      [] how = "write_error" -> [raised |-> TRUE, makedirs |-> TRUE,
                                 file |-> [bytes |-> "truncated", mtime |-> 0]]
      [] OTHER               -> [raised |-> FALSE, makedirs |-> TRUE,
                                 file |-> [bytes |-> "remote", mtime |-> 0]]

\* download_file that opens the target for writing before it sends the request
download_fileOpensFirst(file, how, now) ==
    CASE how = "http_error"  -> [raised |-> TRUE, makedirs |-> TRUE,
                                 file |-> [bytes |-> "truncated", mtime |-> now]]
      [] how = "os_error"    -> [raised |-> TRUE, file |-> file, makedirs |-> TRUE]
      [] how = "write_error" -> [raised |-> TRUE, makedirs |-> TRUE,
                                 file |-> [bytes |-> "truncated", mtime |-> now]]
      [] OTHER               -> [raised |-> FALSE, makedirs |-> TRUE,
                                 file |-> [bytes |-> "remote", mtime |-> now]]

\* download_file on a path holding `file`, at local clock `now`.
\* makedirs: whether os.makedirs of main.py:133 was reached.
download_file(file, how, now) ==
    CASE how = "http_error"  -> [raised |-> TRUE, file |-> file, makedirs |-> FALSE]
      [] how = "os_error"    -> [raised |-> TRUE, file |-> file, makedirs |-> TRUE]
      [] how = "write_error" -> [raised |-> TRUE, makedirs |-> TRUE,
                                 file |-> [bytes |-> "truncated", mtime |-> now]]
      [] OTHER               -> [raised |-> FALSE, makedirs |-> TRUE,
                                 file |-> [bytes |-> "remote", mtime |-> now]]

(* ------------------------ synchronize_directory ----------------------- *)

\* What the environment does while one record is processed: how the download
\* ends, what the local clock shows, what each hook called does.
\* n is the number of plugins bound to the channel.
QuietEnv == [download |-> "ok", now |-> 0, hooks |-> <<>>]

\* (download_file consults the clock only when it opens the file)
FailingEnvs ==
    [download : {"http_error", "os_error"}, now : {0}, hooks : {<<>>}]
    \cup [download : {"write_error"}, now : Times, hooks : {<<>>}]

ServingEnvs(n) ==
    [download : {"ok"}, now : Times, hooks : [1..n -> HookBehaviours]]

\* the position of the first hook set to raise if called, 0 when none is
FirstRaise(hooks) ==
    IF \E i \in 1..Len(hooks) : hooks[i] = "raise"
    THEN CHOOSE i \in 1..Len(hooks) :
            hooks[i] = "raise" /\ \A j \in 1..(i - 1) : hooks[j] # "raise"
    ELSE 0

Bound(plugins, channel) ==
    IF channel \in DOMAIN plugins THEN Len(plugins[channel]) ELSE 0

\* Fetch with the dispatch outside the try: a hook that raises is not counted
\* as an error of the file
FetchHookUncounted(store, name, plugins, channel, env) ==
    LET d == download_file(store[name], env.download, env.now)
        r == run_plugins(plugins, channel, env.hooks, d.file, env.now)
    IN  IF d.raised
        THEN [kind |-> "Errored", event |-> "download_raised",
              store |-> [store EXCEPT ![name] = d.file],
              calls |-> <<"download_file">>]
        ELSE [kind |-> "Downloaded",
              event |-> IF r.raised THEN "hook_raised" ELSE "written",
              store |-> [store EXCEPT ![name] = r.file],
              calls |-> <<"download_file">> \o r.invoked]

\* Fetch in which a failed request is not caught by the except clause of
\* main.py:186 and leaves synchronize_directory
FetchTransportAborts(store, name, plugins, channel, env) ==
    LET d == download_file(store[name], env.download, env.now)
        r == run_plugins(plugins, channel, env.hooks, d.file, env.now)
    IN  IF d.raised
        THEN [kind |-> IF env.download = "http_error" THEN "Raised" ELSE "Errored",
              event |-> "download_raised",
              store |-> [store EXCEPT ![name] = d.file],
              calls |-> <<"download_file">>]
        ELSE [kind |-> IF r.raised THEN "Errored" ELSE "Downloaded",
              event |-> IF r.raised THEN "hook_raised" ELSE "written",
              store |-> [store EXCEPT ![name] = r.file],
              calls |-> <<"download_file">> \o r.invoked]

\* main.py:175-177 and 183-185 under the try of main.py:157: download,
\* dispatch, count.  event: what happened; kind: how the code counts it.
Fetch(store, name, plugins, channel, env) ==
    LET d == download_file(store[name], env.download, env.now)
        r == run_plugins(plugins, channel, env.hooks, d.file, env.now)
    IN  IF d.raised
        THEN [kind |-> "Errored", event |-> "download_raised",
              store |-> [store EXCEPT ![name] = d.file],
              calls |-> <<"download_file">>]
        ELSE [kind |-> IF r.raised THEN "Errored" ELSE "Downloaded",
              event |-> IF r.raised THEN "hook_raised" ELSE "written",
              store |-> [store EXCEPT ![name] = r.file],
              calls |-> <<"download_file">> \o r.invoked]

\* Decide without the annotation guard of main.py:172
DecideUnguarded(store, rec) ==
    LET name == rec.jmeno_souboru
    IN  IF name = NoName THEN [kind |-> "Raised", event |-> "no_name"]
        ELSE IF rec.cesta = NoneVal THEN [kind |-> "Raised", event |-> "no_path"]
        ELSE IF ~Parsable(rec.vlozeno) THEN [kind |-> "Errored", event |-> "bad_stamp"]
        ELSE LET server_mod_time == StrpTime(rec.vlozeno)
                 file == store[name]
             IN  IF file # NoFile
                 THEN IF server_mod_time > file.mtime
                      THEN [kind |-> "Fetch", event |-> "newer"]
                      ELSE [kind |-> "UpToDate",
                            event |-> IF server_mod_time = file.mtime
                                      THEN "same_age" ELSE "older"]
                 ELSE [kind |-> "Fetch", event |-> "absent"]

\* Decide with >= for > in main.py:168
DecideNotOlder(store, rec) ==
    LET name == rec.jmeno_souboru
    IN  IF name = NoName THEN [kind |-> "Raised", event |-> "no_name"]
        ELSE IF rec.cesta = NoneVal THEN [kind |-> "Raised", event |-> "no_path"]
        ELSE IF ~Parsable(rec.vlozeno) THEN [kind |-> "Errored", event |-> "bad_stamp"]
        ELSE LET server_mod_time == StrpTime(rec.vlozeno)
                 file == store[name]
             IN  IF file # NoFile
                 THEN IF server_mod_time >= file.mtime
                      THEN LET ha == hasAnnotations(name, file)
                           IN  IF ha.result = "raise"
                               THEN [kind |-> "Errored", event |-> "inspect_raised"]
                               ELSE IF ha.result = "True"
                               THEN [kind |-> "Guarded", event |-> "annotated"]
                               ELSE [kind |-> "Fetch", event |-> "newer"]
                      ELSE [kind |-> "UpToDate", event |-> "older"]
                 ELSE [kind |-> "Fetch", event |-> "absent"]

\* Decide that takes an absent file for one of modification time 0
DecideAbsentAsOld(store, rec) ==
    LET name == rec.jmeno_souboru
    IN  IF name = NoName THEN [kind |-> "Raised", event |-> "no_name"]
        ELSE IF rec.cesta = NoneVal THEN [kind |-> "Raised", event |-> "no_path"]
        ELSE IF ~Parsable(rec.vlozeno) THEN [kind |-> "Errored", event |-> "bad_stamp"]
        ELSE LET server_mod_time == StrpTime(rec.vlozeno)
                 file == store[name]
             IN  IF server_mod_time > file.mtime
                 THEN IF file = NoFile THEN [kind |-> "Fetch", event |-> "absent"]
                      ELSE LET ha == hasAnnotations(name, file)
                           IN  IF ha.result = "raise"
                               THEN [kind |-> "Errored", event |-> "inspect_raised"]
                               ELSE IF ha.result = "True"
                               THEN [kind |-> "Guarded", event |-> "annotated"]
                               ELSE [kind |-> "Fetch", event |-> "newer"]
                 ELSE [kind |-> "UpToDate",
                       event |-> IF server_mod_time = file.mtime
                                 THEN "same_age" ELSE "older"]

\* The decision the loop body of synchronize_directory takes for one record
\* against the channel's directory `store`, main.py:154-174, 179-182.
\* event: what the record and the local file turned out to be;
\* kind: "Raised" when an exception leaves the loop, "Errored" when the except
\* clause of main.py:186 catches one, "UpToDate", "Guarded", or "Fetch".
Decide(store, rec) ==
    LET name == rec.jmeno_souboru
    IN  IF name = NoName THEN [kind |-> "Raised", event |-> "no_name"]
        ELSE IF rec.cesta = NoneVal THEN [kind |-> "Raised", event |-> "no_path"]
        ELSE IF ~Parsable(rec.vlozeno) THEN [kind |-> "Errored", event |-> "bad_stamp"]
        ELSE LET server_mod_time == StrpTime(rec.vlozeno)
                 file == store[name]
             IN  IF file # NoFile
                 THEN IF server_mod_time > file.mtime
                      THEN LET ha == hasAnnotations(name, file)
                           IN  IF ha.result = "raise"
                               THEN [kind |-> "Errored", event |-> "inspect_raised"]
                               ELSE IF ha.result = "True"
                               THEN [kind |-> "Guarded", event |-> "annotated"]
                               ELSE [kind |-> "Fetch", event |-> "newer"]
                      ELSE [kind |-> "UpToDate",
                            event |-> IF server_mod_time = file.mtime
                                      THEN "same_age" ELSE "older"]
                 ELSE [kind |-> "Fetch", event |-> "absent"]

\* no call of hasAnnotations
NotInspected == [result |-> "not called", opened |-> FALSE, closed |-> FALSE, loaded |-> 0]

\* the call of hasAnnotations(local_path) of main.py:172, made when the local
\* file exists and is strictly older than the record
Inspection(store, rec) ==
    IF Decide(store, rec).event \in {"inspect_raised", "annotated", "newer"}
    THEN hasAnnotations(rec.jmeno_souboru, store[rec.jmeno_souboru])
    ELSE NotInspected

\* the body of the loop of synchronize_directory, main.py:154-188, for one
\* record: the outcome for the record, the directory after it, and the calls
\* of download_file and of plugin hooks made for it, in order
SyncRecord(store, rec, plugins, channel, env) ==
    LET d == Decide(store, rec)
    IN  IF d.kind = "Fetch"
        THEN Fetch(store, rec.jmeno_souboru, plugins, channel, env)
        ELSE [kind |-> d.kind, event |-> d.event, store |-> store, calls |-> <<>>]

\* the environments in which `event` can happen to a record
Envs(store, rec, plugins, channel, event) ==
    LET d == Decide(store, rec)
    IN  IF d.kind # "Fetch" THEN (IF event = d.event THEN {QuietEnv} ELSE {})
        ELSE IF event = "download_raised" THEN FailingEnvs
        ELSE IF event \in {"hook_raised", "written"}
        THEN ServingEnvs(Bound(plugins, channel))
        ELSE {}

(* ----------------------------- configuration -------------------------- *)

\* [Plugins]: plugin name = comma separated channels, in file order
PluginsSection ==
    << [name |-> "P1", channels |-> <<"/", "x", ",", "y">>],
       [name |-> "P2", channels |-> <<"/", "x">>] >>

Dirs == {LocalDir(ChannelX), LocalDir(ChannelY)}

\* The config file: whether it exists, which parts it has, and the keys of
\* its [Channels] section in file order.
FullConfig(channels) ==
    [exists |-> TRUE, Plugins |-> TRUE, ROOT_DIR |-> TRUE, Channels |-> TRUE,
     channels |-> channels]

Configs(channels) ==
    { FullConfig(channels),
      [FullConfig(channels) EXCEPT !.exists = FALSE],
      [FullConfig(channels) EXCEPT !.Plugins = FALSE],
      [FullConfig(channels) EXCEPT !.ROOT_DIR = FALSE],
      [FullConfig(channels) EXCEPT !.Channels = FALSE] }

(* -------------------------------- state ------------------------------- *)

VARIABLES
    config,            \* the config file
    pluginDir,         \* the plugins/ directory: plugin name -> kind of file
    fs,                \* local files: directory -> file name -> file
    mainPc,            \* where main is
    plugins,           \* plugin_manager.plugins
    chan,              \* position of the loop of main.py:234 in [Channels]
    errors,            \* main: errors
    total_files,       \* main: total_files
    total_downloaded,  \* main: total_downloaded
    total_errors,      \* main: total_errors
    root,              \* synchronize_directory: the <objekt>s the loop of
                       \* main.py:153 has yet to visit
    dir_total_files,   \* synchronize_directory: total_files
    downloaded_files,  \* synchronize_directory: downloaded_files
    errored_files,     \* synchronize_directory: errored_files
    last,              \* what processing the latest record did: outcome,
                       \* calls made, what hasAnnotations did, how the
                       \* download ended, whether it reached os.makedirs,
                       \* and which hook of the channel was the first set
                       \* to raise
    results,           \* the values returned by synchronize_directory so far
    fetch_failed       \* channels whose get_xml raised

vars == <<config, pluginDir, fs, mainPc, plugins, chan, errors, total_files,
          total_downloaded, total_errors, root, dir_total_files,
          downloaded_files, errored_files, last, results, fetch_failed>>

mainVars == <<errors, total_files, total_downloaded, total_errors>>
syncVars == <<root, dir_total_files, downloaded_files, errored_files>>

\* before the first record of a listing
NoRecord == [kind |-> "none", event |-> "none", calls |-> <<>>, first_raise |-> 0,
             inspect |-> NotInspected, download |-> "not called",
             makedirs |-> FALSE]

InitRest ==
    /\ mainPc = "start"
    /\ plugins = <<>>
    /\ chan = 0
    /\ errors = <<>>
    /\ total_files = 0
    /\ total_downloaded = 0
    /\ total_errors = 0
    /\ root = <<>>
    /\ dir_total_files = 0
    /\ downloaded_files = 0
    /\ errored_files = 0
    /\ last = NoRecord
    /\ results = <<>>
    /\ fetch_failed = {}

EmptyStore == [n \in FileNames |-> NoFile]

\* Local directories before the run: store i holds, under each name, the
\* i-th file a user can have under it (cyclically), so that every such file
\* occurs under every name.  Files of a directory do not interact.
Stores ==
    {[n \in FileNames |-> UserFiles(n)[((i - 1) % Len(UserFiles(n))) + 1]] :
        i \in 1..Len(UserFiles(NotePdf))}

\* two configured channels with working plugins, the same files in both
\* local directories
Init ==
    /\ config \in Configs(<<ChannelX, ChannelY>>)
    /\ pluginDir = [p \in PluginNames |-> "ok"]
    /\ \E st \in Stores : fs = [d \in Dirs |-> st]
    /\ InitRest

\* any plugins/ directory; an annotated document in the first local
\* directory, a damaged one in the second
InitPlugins ==
    /\ config \in Configs(<<ChannelX, ChannelY>>)
    /\ pluginDir \in [PluginNames -> PluginKinds]
    /\ fs = [d \in Dirs |->
               [n \in FileNames |->
                  IF n # NotePdf THEN NoFile
                  ELSE IF d = LocalDir(ChannelX)
                       THEN [bytes |-> "annotated", mtime |-> 0]
                       ELSE [bytes |-> "corrupt", mtime |-> 0]]]
    /\ InitRest

(* -------------------------------- main -------------------------------- *)

\* main.py:206-211
ReadConfig ==
    /\ mainPc = "start"
    /\ mainPc' = IF config.exists THEN "config" ELSE "raised"
    /\ UNCHANGED <<config, pluginDir, fs, plugins, chan, mainVars, syncVars,
                   last, results, fetch_failed>>

\* main.py:212, PluginManager.__init__; config['Plugins'] raises KeyError
\* when the section is missing
BuildPluginManager ==
    /\ mainPc = "config"
    /\ LET built == load_plugins(PluginsSection, pluginDir)
       IN  IF ~config.Plugins \/ built.raised
           THEN mainPc' = "raised" /\ UNCHANGED plugins
           ELSE mainPc' = "plugins" /\ plugins' = built.plugins
    /\ UNCHANGED <<config, pluginDir, fs, chan, mainVars, syncVars, last,
                   results, fetch_failed>>

\* CheckSettings without the test of main.py:228
CheckSettingsNoChannelsTest ==
    /\ mainPc = "plugins"
    /\ IF config.ROOT_DIR
       THEN mainPc' = "loop" /\ chan' = 1
       ELSE mainPc' = "returned" /\ UNCHANGED chan
    /\ UNCHANGED <<config, pluginDir, fs, plugins, mainVars, syncVars, last,
                   results, fetch_failed>>

\* main.py:213-232
CheckSettings ==
    /\ mainPc = "plugins"
    /\ IF config.ROOT_DIR /\ config.Channels
       THEN mainPc' = "loop" /\ chan' = 1
       ELSE mainPc' = "returned" /\ UNCHANGED chan
    /\ UNCHANGED <<config, pluginDir, fs, plugins, mainVars, syncVars, last,
                   results, fetch_failed>>

\* main.py:234-236 and 144-149: the next channel, get_xml answers
GetXml ==
    /\ mainPc = "loop"
    /\ chan <= Len(config.channels)
    /\ \E listing \in Listings :
          /\ total_files + Len(listing) <= MaxRecords
          /\ root' = listing
          /\ dir_total_files' = Len(listing)
    /\ downloaded_files' = 0
    /\ errored_files' = 0
    /\ last' = NoRecord
    /\ mainPc' = "sync"
    /\ UNCHANGED <<config, pluginDir, fs, plugins, chan, mainVars, results,
                   fetch_failed>>

\* main.py:234-236 and 146: get_xml raises; nothing catches it
GetXmlRaises ==
    /\ mainPc = "loop"
    /\ chan <= Len(config.channels)
    /\ fetch_failed' = fetch_failed \cup {chan}
    /\ mainPc' = "raised"
    /\ UNCHANGED <<config, pluginDir, fs, plugins, chan, mainVars, syncVars,
                   last, results>>

\* The same loop as a log: what the body did for each record, in order, with
\* the directory after it; envs[i] is what the environment does when the
\* i-th record is fetched.
RECURSIVE PassLog(_, _, _, _, _)
PassLog(store, recs, plugin_manager, channel, envs) ==
    IF recs = <<>> THEN <<>>
    ELSE LET Rest(r) ==
                 IF r.kind = "Raised" THEN <<r>>
                 ELSE <<r>> \o PassLog(r.store, Tail(recs), plugin_manager, channel,
                                       Tail(envs))
         IN  Rest(SyncRecord(store, Head(recs), plugin_manager, channel, Head(envs)))

\* CountRecord that weighs a download by its position from the end of the
\* listing
CountRecordByPosition(kind, downloaded, errored) ==
    [downloaded_files |-> IF kind = "Downloaded" THEN 2 * downloaded + 1
                          ELSE 2 * downloaded,
     errored_files |-> IF kind = "Errored" THEN errored + 1 ELSE errored]

\* CountRecord with downloaded_files incremented before the dispatch, so that
\* a file whose hook raises is counted twice
CountRecordEarly(kind, downloaded, errored) ==
    [downloaded_files |-> IF kind \in {"Downloaded", "Errored"}
                          THEN downloaded + 1 ELSE downloaded,
     errored_files |-> IF kind = "Errored" THEN errored + 1 ELSE errored]

\* main.py:177, 185 and 188: the counters after a record that ended `kind`
CountRecord(kind, downloaded, errored) ==
    [downloaded_files |-> IF kind = "Downloaded" THEN downloaded + 1 ELSE downloaded,
     errored_files |-> IF kind = "Errored" THEN errored + 1 ELSE errored]

\* one iteration of the loop of main.py:153-188 in which `event` happens
\* (synchronize_directory is running); an exception that leaves the loop
\* leaves synchronize_directory and main
Process(event) ==
    /\ root # <<>>
    /\ LET channel == config.channels[chan]
           dir == LocalDir(channel)
       IN  \E env \in Envs(fs[dir], Head(root), plugins, channel, event) :
           \E r \in {SyncRecord(fs[dir], Head(root), plugins, channel, env)} :
           \E n \in {CountRecord(r.kind, downloaded_files, errored_files)} :
                 /\ r.event = event
                 /\ fs' = [fs EXCEPT ![dir] = r.store]
                 /\ last' = [kind |-> r.kind, event |-> r.event, calls |-> r.calls,
                              first_raise |-> FirstRaise(env.hooks),
                              inspect |-> Inspection(fs[dir], Head(root)),
                              download |-> IF r.calls # <<>> THEN env.download
                                           ELSE "not called",
                              makedirs |->
                                  /\ r.calls # <<>>
                                  /\ download_file(fs[dir][Head(root).jmeno_souboru],
                                                   env.download, env.now).makedirs]
                 /\ downloaded_files' = n.downloaded_files
                 /\ errored_files' = n.errored_files
                 /\ IF r.kind = "Raised"
                    THEN mainPc' = "raised" /\ root' = root
                    ELSE mainPc' = "sync" /\ root' = Tail(root)
    /\ UNCHANGED <<config, pluginDir, plugins, chan, mainVars,
                   dir_total_files, results, fetch_failed>>

RecordWithoutName == mainPc = "sync" /\ Process("no_name")
RecordWithoutPath == mainPc = "sync" /\ Process("no_path")
RecordBadStamp == mainPc = "sync" /\ Process("bad_stamp")
RecordSameAge == mainPc = "sync" /\ Process("same_age")
RecordOlder == mainPc = "sync" /\ Process("older")
RecordGuarded == mainPc = "sync" /\ Process("annotated")
RecordInspectRaises == mainPc = "sync" /\ Process("inspect_raised")
RecordDownloadRaises == mainPc = "sync" /\ Process("download_raised")
RecordHookRaises == mainPc = "sync" /\ Process("hook_raised")
RecordWritten == mainPc = "sync" /\ Process("written")

\* SyncReturn with >= for > in main.py:240
SyncReturnAlwaysFailed ==
    /\ mainPc = "sync"
    /\ root = <<>>
    /\ total_files' = total_files + dir_total_files
    /\ total_downloaded' = total_downloaded + downloaded_files
    /\ total_errors' = total_errors + errored_files
    /\ errors' = IF errored_files >= 0
                 THEN Append(errors, config.channels[chan]) ELSE errors
    /\ results' = Append(results,
                         [channel |-> config.channels[chan], total |-> dir_total_files,
                          downloaded |-> downloaded_files, error |-> errored_files])
    /\ chan' = chan + 1
    /\ mainPc' = "loop"
    /\ last' = NoRecord
    /\ UNCHANGED <<config, pluginDir, fs, plugins, syncVars, fetch_failed>>

\* main.py:190-199 and 236-241: synchronize_directory returns, main adds up
SyncReturn ==
    /\ mainPc = "sync"
    /\ root = <<>>
    /\ LET total == dir_total_files
           downloaded == downloaded_files
           error == errored_files
       IN  /\ total_files' = total_files + total
           /\ total_downloaded' = total_downloaded + downloaded
           /\ total_errors' = total_errors + error
           /\ errors' = IF error > 0
                        THEN Append(errors, config.channels[chan]) ELSE errors
           /\ results' = Append(results,
                                [channel |-> config.channels[chan], total |-> total,
                                 downloaded |-> downloaded, error |-> error])
    /\ chan' = chan + 1
    /\ mainPc' = "loop"
    /\ last' = NoRecord
    /\ UNCHANGED <<config, pluginDir, fs, plugins, syncVars, fetch_failed>>

\* The loop of synchronize_directory, main.py:153-199, over the records
\* `recs` from the directory `store` on, when the counters stand at
\* `downloaded` and `errored`; envOf gives, for a file name, what the
\* environment does when that file is fetched.  raised: an exception left the
\* loop, and with it synchronize_directory, which then returns nothing.
RECURSIVE PassFrom(_, _, _, _, _, _, _)
PassFrom(store, recs, plugin_manager, channel, envOf, downloaded, errored) ==
    IF recs = <<>>
    THEN [raised |-> FALSE, store |-> store,
          downloaded |-> downloaded, errored |-> errored]
    ELSE LET rec == Head(recs)
             \* the rest of the loop after the body gave r for rec
             Rest(r) ==
                 IF r.kind = "Raised"
                 THEN [raised |-> TRUE, store |-> r.store,
                       downloaded |-> downloaded, errored |-> errored]
                 ELSE PassFrom(r.store, Tail(recs), plugin_manager, channel, envOf,
                               CountRecord(r.kind, downloaded, errored).downloaded_files,
                               CountRecord(r.kind, downloaded, errored).errored_files)
         IN  Rest(SyncRecord(store, rec, plugin_manager, channel,
                             envOf[rec.jmeno_souboru]))

\* main.py:244-257: the loop is over, the summary is logged
Finish ==
    /\ mainPc = "loop"
    /\ chan > Len(config.channels)
    /\ mainPc' = "done"
    /\ UNCHANGED <<config, pluginDir, fs, plugins, chan, mainVars, syncVars,
                   last, results, fetch_failed>>

Next ==
    \/ ReadConfig
    \/ BuildPluginManager
    \/ CheckSettings
    \/ GetXml
    \/ GetXmlRaises
    \/ RecordWithoutName
    \/ RecordWithoutPath
    \/ RecordBadStamp
    \/ RecordSameAge
    \/ RecordOlder
    \/ RecordGuarded
    \/ RecordInspectRaises
    \/ RecordDownloadRaises
    \/ RecordHookRaises
    \/ RecordWritten
    \/ SyncReturn
    \/ Finish

Spec == Init /\ [][Next]_vars

SpecPlugins == InitPlugins /\ [][Next]_vars

(* ------------------------------ properties ---------------------------- *)

\* main.py:190: ok_files is derived from the three counters
ok_files(total, downloaded, errored) == total - errored - downloaded

\* the loop of synchronize_directory is about to process a record
AtRecord == mainPc = "sync" /\ root # <<>>
CurChannel == config.channels[chan]
CurDir == LocalDir(CurChannel)
CurRec == Head(root)
CurFile == fs[CurDir][CurRec.jmeno_souboru]

\* the record has a file name, a server path and a timestamp that parses
Complete(rec) ==
    rec.jmeno_souboru # NoName /\ rec.cesta # NoneVal /\ Parsable(rec.vlozeno)

\* the step processed a record and went on to the rest of the listing
WentOn == mainPc' = "sync" /\ root' = Tail(root)

\* the step neither called download_file nor a hook, and left all files alone
Untouched == fs' = fs /\ last'.calls = <<>>

Range(seq) == {seq[i] : i \in 1..Len(seq)}

\* C1 (as claimed): once get_xml has raised for a channel main is still
\* running or finished normally, and when it has finished every channel was
\* attempted and every channel whose fetch failed is in the failed list.
C1_FetchFailureContained ==
    fetch_failed # {} =>
        /\ mainPc # "raised"
        /\ mainPc = "done" =>
              /\ chan > Len(config.channels)
              /\ \A c \in fetch_failed : config.channels[c] \in Range(errors)

\* C2: a record for which download_file or a plugin hook raises is counted in
\* errored_files and not in downloaded_files, and the loop goes on with the
\* next record; no exception leaves synchronize_directory.
C2_FetchFailureCounted ==
    [][(AtRecord /\ last'.event \in {"download_raised", "hook_raised"}) =>
          /\ errored_files' = errored_files + 1
          /\ downloaded_files' = downloaded_files
          /\ WentOn]_vars

\* a hook raised after the bytes of the file were written
C2_Witness ==
    /\ mainPc = "sync"
    /\ last.event = "hook_raised"
    /\ Len(last.calls) > 1
    /\ errored_files = 1
    /\ downloaded_files = 0
    /\ \E n \in FileNames : fs[CurDir][n].bytes = "remote"

\* C3: a record whose local file exists, is strictly older than the remote
\* timestamp and has annotations causes no download and no dispatch, leaves
\* every local file as it is and changes neither counter.
C3_GuardedUntouched ==
    [][(/\ AtRecord
        /\ Complete(CurRec)
        /\ CurFile # NoFile
        /\ CurFile.mtime < StrpTime(CurRec.vlozeno)
        /\ hasAnnotations(CurRec.jmeno_souboru, CurFile).result = "True") =>
          /\ Untouched
          /\ downloaded_files' = downloaded_files
          /\ errored_files' = errored_files
          /\ WentOn]_vars

\* a record was guarded and the annotated document is still there
C3_Witness ==
    /\ mainPc = "sync"
    /\ last.kind = "Guarded"
    /\ fs[CurDir][NotePdf].bytes = "annotated"
    /\ downloaded_files = 0
    /\ errored_files = 0

\* C4: downloaded_files + errored_files never exceeds the number of records
\* processed so far, and every result returned has ok_files >= 0.
C4_CountsBounded ==
    /\ downloaded_files + errored_files <= dir_total_files - Len(root)
    /\ \A i \in 1..Len(results) :
          /\ results[i].downloaded >= 0
          /\ results[i].error >= 0
          /\ ok_files(results[i].total, results[i].downloaded, results[i].error) >= 0

\* a pass returned with one file downloaded and one errored
C4_Witness ==
    \E i \in 1..Len(results) :
        /\ results[i].downloaded = 1
        /\ results[i].error = 1
        /\ results[i].total = 2

\* C5 (as claimed): whenever the file of a record (one that names a file and
\* a server path) does not exist locally, download_file is called for the
\* record, whatever the text of its timestamp.
C5_AbsentAlwaysFetched ==
    [][(/\ AtRecord
        /\ CurRec.jmeno_souboru # NoName
        /\ CurRec.cesta # NoneVal
        /\ CurFile = NoFile) =>
          (last'.calls # <<>> /\ Head(last'.calls) = "download_file")]_vars

\* C5 (amended): whenever the file of a record that has a name, a path and a
\* parsable timestamp does not exist locally, download_file is called for the
\* record, whatever the timestamp.
C5_AbsentFetched ==
    [][(/\ AtRecord
        /\ Complete(CurRec)
        /\ CurFile = NoFile) =>
          (last'.calls # <<>> /\ Head(last'.calls) = "download_file" /\ WentOn)]_vars

\* download_file was called for the first record of a listing and raised;
\* the directory holds no file, so the file of the record was absent
C5_Witness ==
    /\ mainPc = "sync"
    /\ last.event = "download_raised"
    /\ last.calls = <<"download_file">>
    /\ dir_total_files - Len(root) = 1
    /\ \A n \in FileNames : fs[CurDir][n] = NoFile

\* C6: a record whose local file exists and is not older than the remote
\* timestamp (the same age included) causes no download and no dispatch,
\* leaves every local file as it is, and is counted neither as downloaded nor
\* as errored.
C6_UpToDateUntouched ==
    [][(/\ AtRecord
        /\ Complete(CurRec)
        /\ CurFile # NoFile
        /\ CurFile.mtime >= StrpTime(CurRec.vlozeno)) =>
          /\ Untouched
          /\ last'.kind = "UpToDate"
          /\ downloaded_files' = downloaded_files
          /\ errored_files' = errored_files
          /\ WentOn]_vars

\* a record of the same age as its local file was skipped
C6_Witness ==
    /\ mainPc = "sync"
    /\ last.kind = "UpToDate"
    /\ last.event = "same_age"
    /\ last.calls = <<>>
    /\ downloaded_files + errored_files < dir_total_files - Len(root)

\* C7 (as claimed): a record without file name, without path, or without a
\* timestamp that parses is counted as an errored file and no exception
\* leaves synchronize_directory.
C7_MalformedCounted ==
    last.event \in {"no_name", "no_path", "bad_stamp"} =>
        (last.kind = "Errored" /\ mainPc # "raised")

\* C8: no step removes a local file, and a step changes a local file only
\* while processing a record of that file's name in that file's channel.
C8_OnlyListedFilesChange ==
    [][\A d \in Dirs, n \in FileNames :
          /\ fs[d][n] # NoFile => fs'[d][n] # NoFile
          /\ fs'[d][n] # fs[d][n] =>
                (AtRecord /\ d = CurDir /\ CurRec.jmeno_souboru = n)]_vars

\* a file was written next to a file of the user, which is as it was
C8_Witness ==
    /\ mainPc = "sync"
    /\ last.event = "written"
    /\ \E n, m \in FileNames :
          /\ fs[CurDir][n].bytes \in {"remote", "processed"}
          /\ fs[CurDir][m].bytes \in {"plain", "annotated", "corrupt"}

RECURSIVE SumOf(_, _)
SumOf(rs, field) ==
    IF rs = <<>> THEN 0 ELSE Head(rs)[field] + SumOf(Tail(rs), field)

RECURSIVE Failing(_)
Failing(rs) ==
    IF rs = <<>> THEN <<>>
    ELSE (IF Head(rs).error > 0 THEN <<Head(rs).channel>> ELSE <<>>) \o Failing(Tail(rs))

\* C9: the results are those of the channels in configuration order; the
\* totals are the field-wise sums of the results and the failed list is the
\* channels whose result has error > 0, in that order, also when the loop
\* has ended.
C9_SummaryIsSum ==
    /\ \A i \in 1..Len(results) : results[i].channel = config.channels[i]
    /\ mainPc = "done" => Len(results) = Len(config.channels)
    /\ total_files = SumOf(results, "total")
    /\ total_downloaded = SumOf(results, "downloaded")
    /\ total_errors = SumOf(results, "error")
    /\ errors = Failing(results)

\* main finished: the first channel failed with one file, the second
\* downloaded one
C9_Witness ==
    /\ mainPc = "done"
    /\ Len(results) = 2
    /\ errors = <<ChannelX>>
    /\ total_errors = 1
    /\ total_downloaded = 1
    /\ total_files = 2

\* the PluginManager was built
Built == mainPc \in {"plugins", "loop", "sync", "returned", "done"}

\* C10 (as claimed): building the PluginManager does not raise because of a
\* plugin, and a plugin that is no working plugin is bound to no channel.
C10_BrokenPluginsOmitted ==
    /\ (config.exists /\ config.Plugins /\ mainPc # "start" /\ mainPc # "config") => Built \/ chan > 0
    /\ \A c \in DOMAIN plugins : \A i \in 1..Len(plugins[c]) :
          pluginDir[plugins[c][i].name] = "ok"

\* the plugins registered for a channel by the [Plugins] section, in the
\* order of the section
RECURSIVE Registered(_, _)
Registered(section, channel) ==
    IF section = <<>> THEN <<>>
    ELSE (IF channel \in Range(SplitComma(Head(section).channels))
          THEN <<Head(section).name>> ELSE <<>>)
         \o Registered(Tail(section), channel)

\* C11: after a file was written, the hooks entered are those of the plugins
\* registered for the record's channel, in registration order, up to and
\* including the first that raises; none after it is entered, the exception
\* reaches synchronize_directory (the record is counted as errored), and a
\* plugin registered only for other channels is not entered.
C11_DispatchInOrder ==
    [][(AtRecord /\ last'.event \in {"written", "hook_raised"}) =>
          LET reg == Registered(PluginsSection, CurChannel)
              k == last'.first_raise
              invoked == Tail(last'.calls)
          IN  /\ k \in 0..Len(reg)
              /\ invoked = SubSeq(reg, 1, IF k = 0 THEN Len(reg) ELSE k)
              /\ (k # 0) <=> (last'.event = "hook_raised")
              /\ (k # 0) <=> (last'.kind = "Errored")]_vars

\* in the channel with two plugins the first hook raised and the second was
\* not entered
C11_Witness ==
    /\ mainPc = "sync"
    /\ CurChannel = ChannelX
    /\ Registered(PluginsSection, CurChannel) = <<"P1", "P2">>
    /\ last.first_raise = 1
    /\ last.calls = <<"download_file", "P1">>
    /\ last.kind = "Errored"

Pdf == <<".", "p", "d", "f">>

\* C12: a call of hasAnnotations on a path that does not end in ".pdf"
\* answers False without opening the file; on a readable document it answers
\* True exactly when some page has an annotation, and then the last page it
\* loaded is the first page with an annotation.
C12_ShortCircuitScan ==
    [][(AtRecord /\ last'.inspect # NotInspected) =>
          LET r == last'.inspect
              pages == PagesOf(CurFile.bytes)
          IN  /\ LastFour(CurRec.jmeno_souboru) # Pdf =>
                    (r.result = "False" /\ ~r.opened /\ r.loaded = 0)
              /\ (LastFour(CurRec.jmeno_souboru) = Pdf /\ ~OpenRaises(CurFile.bytes)) =>
                    /\ r.opened
                    /\ r.result \in {"True", "False"}
                    /\ (r.result = "True") <=> (\E i \in 1..Len(pages) : pages[i])
                    /\ r.result = "True" =>
                          /\ r.loaded \in 1..Len(pages)
                          /\ pages[r.loaded]
                          /\ \A j \in 1..(r.loaded - 1) : ~pages[j]
                    /\ r.result = "False" => r.loaded = Len(pages)]_vars

\* the annotated document has three pages, the second annotated: the call
\* answered True after loading two
C12_Witness ==
    /\ mainPc = "sync"
    /\ last.event = "annotated"
    /\ last.inspect.result = "True"
    /\ last.inspect.loaded = 2
    /\ Len(PagesOf(fs[CurDir][NotePdf].bytes)) = 3

\* a text file older than its record was not opened
C12_WitnessNotPdf ==
    /\ mainPc = "sync"
    /\ last.inspect.result = "False"
    /\ ~last.inspect.opened
    /\ last.event = "written"

\* C13 (as claimed): after a record whose download failed in transport the
\* pass over the channel is over: the next step is the return to main, not
\* another record of the channel.
C13_TransportErrorEndsChannel ==
    [][(mainPc = "sync" /\ last.download = "http_error") => mainPc' = "loop"]_vars

\* C13 (amended): a record whose download fails in transport is counted as
\* one errored file, no exception leaves synchronize_directory, the local
\* files are as they were, and the loop goes on with the remaining records of
\* the channel.
C13_TransportErrorIsFileLevel ==
    [][(AtRecord /\ last'.download = "http_error") =>
          /\ last'.kind = "Errored"
          /\ errored_files' = errored_files + 1
          /\ downloaded_files' = downloaded_files
          /\ dir_total_files' = dir_total_files
          /\ fs' = fs
          /\ mainPc' = "sync"
          /\ root' = Tail(root)]_vars

\* the download of the first of two records failed in transport; the pass
\* is still running and the second record is yet to be processed
C13_Witness ==
    /\ mainPc = "sync"
    /\ last.download = "http_error"
    /\ errored_files = 1
    /\ dir_total_files = 2
    /\ Len(root) = 1

\* C14: when the configuration has no ROOT_DIR setting or no [Channels]
\* section, main never enters the loop over the channels: get_xml is not
\* called, no local file changes, neither download_file nor a hook is called,
\* and the step after the PluginManager was built is the return of main.
C14_NoChannelWithoutSettings ==
    [][(~config.ROOT_DIR \/ ~config.Channels) =>
          /\ mainPc' \notin {"loop", "sync", "done"}
          /\ mainPc = "plugins" => mainPc' = "returned"
          /\ chan' = 0
          /\ fs' = fs
          /\ root' = <<>>
          /\ fetch_failed' = {}
          /\ results' = <<>>
          /\ last' = NoRecord]_vars

\* main returned for want of ROOT_DIR, after the PluginManager was built
C14_Witness ==
    /\ ~config.ROOT_DIR
    /\ config.Channels
    /\ mainPc = "returned"
    /\ DOMAIN plugins # {}
    /\ chan = 0

\* main returned for want of [Channels]
C14_WitnessChannels ==
    /\ ~config.Channels
    /\ config.ROOT_DIR
    /\ mainPc = "returned"
    /\ chan = 0

\* C15: a record whose local file exists, is strictly older than the record
\* and makes hasAnnotations raise is counted as one errored file; no download
\* and no hook is called for it, every local file is as it was, and the loop
\* goes on with the remaining records.
C15_InspectFailureCounted ==
    [][(/\ AtRecord
        /\ Complete(CurRec)
        /\ CurFile # NoFile
        /\ CurFile.mtime < StrpTime(CurRec.vlozeno)
        /\ LastFour(CurRec.jmeno_souboru) = Pdf
        /\ OpenRaises(CurFile.bytes)) =>
          /\ last'.inspect.result = "raise"
          /\ last'.kind = "Errored"
          /\ errored_files' = errored_files + 1
          /\ downloaded_files' = downloaded_files
          /\ last'.download = "not called"
          /\ Untouched
          /\ WentOn]_vars

\* the damaged document made hasAnnotations raise for the first of two
\* records; it is still there and the second record is yet to come
C15_Witness ==
    /\ mainPc = "sync"
    /\ last.event = "inspect_raised"
    /\ last.inspect.result = "raise"
    /\ errored_files = 1
    /\ fs[CurDir][NotePdf] = [bytes |-> "corrupt", mtime |-> 0]
    /\ Len(root) = 1

\* the rearrangements of a sequence
Perms(seq) ==
    {[i \in 1..Len(seq) |-> seq[p[i]]] :
        p \in {q \in [1..Len(seq) -> 1..Len(seq)] :
                 \A i, j \in 1..Len(seq) : q[i] = q[j] => i = j}}

\* What the environment does for each file of a pass at clock `now`: the
\* download succeeds and every hook returns, the download succeeds and every
\* hook raises, or the request fails.  n: the plugins bound to the channel.
FileEnvs(n, now) ==
    {[download |-> "ok", now |-> now, hooks |-> [i \in 1..n |-> h]] :
        h \in {"ok", "raise"}}
    \cup {[download |-> "http_error", now |-> now, hooks |-> <<>>]}

\* the whole pass over `recs`: what synchronize_directory returns (nothing
\* when raised) and the directory it leaves
Pass(recs, envOf) ==
    LET r == PassFrom(fs[CurDir], recs, plugins, CurChannel, envOf, 0, 0)
    IN  IF r.raised THEN [raised |-> TRUE, store |-> r.store]
        ELSE [raised |-> FALSE, store |-> r.store, total |-> Len(recs),
              downloaded |-> r.downloaded, errored |-> r.errored]

\* every rearrangement of `recs` gives the same result and leaves the same
\* directory, at every clock value and whatever happens to each file
OrderFree(recs) ==
    \A now \in Times :
        \A envOf \in [FileNames -> FileEnvs(Bound(plugins, CurChannel), now)] :
            \A given \in {Pass(recs, envOf)} :
                \A other \in Perms(recs) \ {recs} : Pass(other, envOf) = given

\* synchronize_directory has the listing and has processed no record of it
PassBegins == mainPc = "sync" /\ Len(root) = dir_total_files

DistinctNames(recs) ==
    \A i, j \in 1..Len(recs) :
        recs[i].jmeno_souboru = recs[j].jmeno_souboru => i = j

\* C16 (as claimed, for listings of records that all have a name, a path and
\* a timestamp that parses): the listing get_xml returned gives the same
\* result and the same directory in every order.
C16_AnyOrderSameOutcome ==
    (/\ PassBegins
     /\ \A i \in 1..Len(root) : Complete(root[i])) =>
        OrderFree(root)

\* C16 (amended): the same for listings whose records all have a name and a
\* path and no two of which have the same name.
C16_DistinctNamesAnyOrder ==
    (/\ PassBegins
     /\ \A i \in 1..Len(root) :
           root[i].jmeno_souboru # NoName /\ root[i].cesta # NoneVal
     /\ DistinctNames(root)) =>
        OrderFree(root)

\* a pass over two records of different names is over: both files were
\* written, one counted as downloaded, one as errored
C16_Witness ==
    /\ mainPc = "sync"
    /\ root = <<>>
    /\ dir_total_files = 2
    /\ downloaded_files = 1
    /\ errored_files = 1
    /\ \A n \in FileNames : fs[CurDir][n].bytes = "remote"

\* the hooks entered by the step, in order
HooksRun == IF last'.calls = <<>> THEN <<>> ELSE Tail(last'.calls)

\* C17: when processing a record enters a hook, download_file was called
\* first for the record and returned, and the file of the record holds what
\* was written; no plugin is entered twice for the record and download_file
\* is called once; no hook is entered for a record whose local file is not
\* older than it, whose local file has annotations, or whose download raised.
C17_HooksOnlyAfterWrite ==
    [][AtRecord =>
          /\ HooksRun # <<>> =>
                /\ Head(last'.calls) = "download_file"
                /\ last'.download = "ok"
                /\ fs'[CurDir][CurRec.jmeno_souboru].bytes \in {"remote", "processed"}
          /\ \A i, j \in 1..Len(HooksRun) : HooksRun[i] = HooksRun[j] => i = j
          /\ "download_file" \notin Range(HooksRun)
          /\ Len(HooksRun) <= Bound(plugins, CurChannel)
          /\ (Complete(CurRec) /\ CurFile # NoFile
                /\ CurFile.mtime >= StrpTime(CurRec.vlozeno)) => last'.calls = <<>>
          /\ (Complete(CurRec) /\ CurFile # NoFile
                /\ hasAnnotations(CurRec.jmeno_souboru, CurFile).result = "True") =>
                   last'.calls = <<>>
          /\ last'.download \in DownloadOutcomes \ {"ok"} => HooksRun = <<>>]_vars

\* both hooks of the first channel were entered, once each, after the file
\* was written
C17_Witness ==
    /\ mainPc = "sync"
    /\ CurChannel = ChannelX
    /\ last.event = "written"
    /\ last.download = "ok"
    /\ last.calls = <<"download_file", "P1", "P2">>
    /\ \E n \in FileNames : fs[CurDir][n].bytes = "remote"

\* C18: when the request of download_file fails or is answered with an
\* error status, every local file has the bytes and the modification time it
\* had, no file appears, os.makedirs is not reached and no hook is entered.
C18_FailedRequestLeavesFiles ==
    [][(AtRecord /\ last'.download = "http_error") =>
          /\ \A d \in Dirs, n \in FileNames : fs'[d][n] = fs[d][n]
          /\ ~last'.makedirs
          /\ last'.calls = <<"download_file">>]_vars

\* the request for a newer copy of an existing document failed: the document
\* was inspected, found free of annotations, and is as the user left it
C18_Witness ==
    /\ mainPc = "sync"
    /\ last.download = "http_error"
    /\ last.inspect.opened
    /\ last.inspect.result = "False"
    /\ ~last.makedirs
    /\ fs[CurDir][NotePdf] = [bytes |-> "plain", mtime |-> 0]

\* the request for a file that does not exist locally failed: there is still
\* no such file
C18_WitnessAbsent ==
    /\ mainPc = "sync"
    /\ last.download = "http_error"
    /\ last.inspect = NotInspected
    /\ ~last.makedirs
    /\ \A n \in FileNames : fs[CurDir][n] = NoFile

\* the directory a pass leaves, given its log
StoreAfter(store, log) == IF log = <<>> THEN store ELSE log[Len(log)].store

\* the i-th record of the pass was written: download_file returned
Wrote(log, i) == log[i].event \in {"written", "hook_raised"}

\* every write of the pass happened at a clock not earlier than the
\* timestamp of the record written
StampsNotEarlier(recs, log, now) ==
    \A i \in 1..Len(log) : Wrote(log, i) => now >= StrpTime(recs[i].vlozeno)

\* in a second pass every download succeeds and every hook returns
Serving(n, now) == [download |-> "ok", now |-> now, hooks |-> [i \in 1..n |-> "ok"]]

\* A first pass over `recs` at clock now1 in environment envs, then a second
\* pass over the same records at a clock now2 not earlier: Then(log1, log2)
\* holds for their logs whenever the writes of both are stamped not earlier
\* than the records.
Rerun(recs, Then(_, _)) ==
    LET n == Bound(plugins, CurChannel)
    IN  \A now1 \in Times, now2 \in Times :
          now1 <= now2 =>
          \A envs \in [1..Len(recs) -> FileEnvs(n, now1)] :
            \A log1 \in {PassLog(fs[CurDir], recs, plugins, CurChannel, envs)} :
              StampsNotEarlier(recs, log1, now1) =>
                \A log2 \in {PassLog(StoreAfter(fs[CurDir], log1), recs, plugins,
                                     CurChannel,
                                     [i \in 1..Len(recs) |-> Serving(n, now2)])} :
                  StampsNotEarlier(recs, log2, now2) => Then(log1, log2)

\* the directory before the i-th step of a logged pass that began on `store`
StoreBefore(store, log, i) == IF i = 1 THEN store ELSE log[i - 1].store

NamedWithPath(recs) ==
    \A i \in 1..Len(recs) :
        recs[i].jmeno_souboru # NoName /\ recs[i].cesta # NoneVal

\* the second pass leaves alone every file the first pass wrote
FilesLeftAlone(log1, log2) ==
    \A i, j \in 1..Len(log1) :
        (Wrote(log1, i) /\ root[j].jmeno_souboru = root[i].jmeno_souboru) =>
            (log2[j].kind = "UpToDate" /\ log2[j].calls = <<>>)

\* the second pass skips every record the first pass wrote
RecordsSkipped(log1, log2) ==
    \A i \in 1..Len(log1) :
        Wrote(log1, i) =>
            /\ log2[i].kind = "UpToDate"
            /\ log2[i].calls = <<>>
            /\ log2[i].store = StoreBefore(StoreAfter(fs[CurDir], log1), log2, i)
            /\ CountRecord(log2[i].kind, 0, 0) =
                   [downloaded_files |-> 0, errored_files |-> 0]

\* C19 (as claimed): for the listing get_xml returned (records with a name
\* and a path), a second pass over it classifies as up to date every record
\* of a file that the first pass wrote, and neither downloads nor dispatches
\* for such a file.
C19_RerunLeavesWrittenFiles ==
    (PassBegins /\ chan = 1 /\ NamedWithPath(root)) => Rerun(root, FilesLeftAlone)

\* C19 (amended): a second pass classifies as up to date every record whose
\* processing wrote its file in the first pass, whether the record was then
\* counted as downloaded or as errored; it calls neither download_file nor a
\* hook for the record, leaves the directory as it is, and counts the record
\* neither as downloaded nor as errored.
C19_RerunSkipsWrittenRecords ==
    (PassBegins /\ chan = 1 /\ NamedWithPath(root)) => Rerun(root, RecordsSkipped)

\* a listing of two files that do not exist locally: in the first pass one
\* is downloaded and the hook of the other raises after the write, in the
\* second pass both are up to date
C19_Witness ==
    /\ PassBegins
    /\ chan = 1
    /\ Len(root) = 2
    /\ DistinctNames(root)
    /\ \A n \in FileNames : fs[CurDir][n] = NoFile
    /\ LET n == Bound(plugins, CurChannel)
           envs == << [download |-> "ok", now |-> MaxTime, hooks |-> [i \in 1..n |-> "ok"]],
                      [download |-> "ok", now |-> MaxTime, hooks |-> [i \in 1..n |-> "raise"]] >>
           log1 == PassLog(fs[CurDir], root, plugins, CurChannel, envs)
           log2 == PassLog(StoreAfter(fs[CurDir], log1), root, plugins, CurChannel,
                           [i \in 1..2 |-> Serving(n, MaxTime)])
       IN  /\ Len(log1) = 2 /\ Len(log2) = 2
           /\ log1[1].kind = "Downloaded"
           /\ log1[2].kind = "Errored" /\ log1[2].event = "hook_raised"
           /\ \A i \in 1..2 : log2[i].kind = "UpToDate"

\* C20 (as claimed): whenever hasAnnotations has returned, with True or with
\* False, the document it opened, if any, has been closed.
C20_NoDocumentLeftOpen ==
    (last.inspect.result \in {"True", "False"} /\ last.inspect.opened) =>
        last.inspect.closed

====
